---- MODULE Spec2Model ----
(***************************************************************************)
(* A model of vyper/semantics/types/utils.py: the StringEnum comparison    *)
(* operators and the two recursive type resolvers type_from_abi and        *)
(* type_from_annotation.  The resolvers run on an explicit call stack, one *)
(* frame per Python activation; a string is a sequence of tokens (a type   *)
(* name is one token, every bracket, sign and digit is one token).         *)
(***************************************************************************)
EXTENDS Integers, Sequences, FiniteSets, TLC

VARIABLES namespace, pc, input, stack, ret, result, log, cmp

vars == <<namespace, pc, input, stack, ret, result, log, cmp>>

(***************************************************************************)
(* Bounds of the explored inputs.                                          *)
(***************************************************************************)
\* number of array suffixes appended to a name in an ABI type string
MaxNest == 2
\* number of subscripts stacked on one annotation leaf
MaxSub == 2
\* number of elements of a Tuple annotation
MaxTupleLen == 2

(***************************************************************************)
(* Values: type objects, outcomes of a call, AST nodes.                    *)
(***************************************************************************)
NoType == [kind |-> "none"]
NoNode == [kind |-> "none"]
None == [kind |-> "None"]

\* a Namespace entry: a leaf type object with its _id and _as_array attributes
LeafT(id, as_array) == [kind |-> "leaf", id |-> id, as_array |-> as_array]

\* the value a call returns
Ok(t) == [kind |-> "ok", type |-> t, exc |-> "none", text |-> <<>>, node |-> NoNode]

\* the exception a call raises: its class, its message, the node it carries
Raise(exc, text, node) ==
    [kind |-> "err", type |-> NoType, exc |-> exc, text |-> text, node |-> node]

vy_Name(id) == [kind |-> "Name", id |-> id]
vy_Int(n) == [kind |-> "Int", n |-> n]
vy_Subscript(value, slice) == [kind |-> "Subscript", value |-> value, slice |-> slice]
vy_Tuple(elements) == [kind |-> "Tuple", elements |-> elements]

(***************************************************************************)
(* Collaborators that live outside utils.py.                               *)
(***************************************************************************)
\* Namespace.__getitem__: the entry, or UndeclaredDefinition when absent
NamespaceLookup(ns, key) ==
    IF Len(key) = 1 /\ key[1] \in DOMAIN ns
    THEN Ok(ns[key[1]])
    ELSE Raise("UndeclaredDefinition", key, NoNode)

\* SArrayT(value_type, length): InvalidType when the length invariant is broken
SArrayT(value_type, length) ==
    IF length < 0
    THEN Raise("InvalidType", <<"Array length is invalid">>, NoNode)
    ELSE Ok([kind |-> "SArrayT", value_type |-> value_type, length |-> length])

\* TupleT(types): the member types in the order given
TupleT(types) == Ok([kind |-> "TupleT", member_types |-> types])

\* get_index_value(node.slice): the statically known integer of the index
get_index_value(slice) == slice

\* the ids of the Name nodes of a tree, the node itself first, left to right
RECURSIVE get_descendants_Name(_)
get_descendants_Name(node) ==
    CASE node.kind = "Name" -> <<node.id>>
      [] node.kind = "Subscript" -> get_descendants_Name(node.value)
      [] node.kind = "Tuple" ->
            LET F[i \in 0..Len(node.elements)] ==
                    IF i = 0 THEN <<>>
                    ELSE F[i - 1] \o get_descendants_Name(node.elements[i])
            IN F[Len(node.elements)]
      [] OTHER -> <<>>

\* an except clause catches the exception classes it names (none of the
\* classes raised here derives from another one raised here)
Catches(handler, out) == out.kind = "err" /\ out.exc = handler

(***************************************************************************)
(* String primitives of type_from_abi.                                     *)
(***************************************************************************)
Digits == <<"0", "1", "2", "3", "4", "5", "6", "7", "8", "9">>

IsDigit(c) == \E i \in 1..Len(Digits) : Digits[i] = c

DigitVal(c) == (CHOOSE i \in 1..Len(Digits) : Digits[i] = c) - 1

\* "[" in type_string
HasBracket(s) == \E i \in 1..Len(s) : s[i] = "["

\* str.capitalize() on the two names it is applied to
capitalize(tok) ==
    CASE tok = "string" -> "String"
      [] tok = "bytes" -> "Bytes"
      [] OTHER -> tok

\* lines 84-88: the ABI spellings that differ from the internal names
Normalize(s) ==
    LET s1 == IF s = <<"fixed168x10">> THEN <<"decimal">> ELSE s
    IN IF s1 \in {<<"string">>, <<"bytes">>} THEN <<capitalize(s1[1])>> ELSE s1

\* split("[", maxsplit=1) in place of rsplit: the text around the first "["
rsplit_first(s) ==
    LET i == CHOOSE j \in 1..Len(s) :
                 s[j] = "[" /\ \A k \in 1..(j - 1) : s[k] # "["
    IN [value_type_string |-> SubSeq(s, 1, i - 1),
        length_str |-> SubSeq(s, i + 1, Len(s))]

\* the last "[" left on the element type string
rsplit_keep_bracket(s) ==
    LET i == CHOOSE j \in 1..Len(s) :
                 s[j] = "[" /\ \A k \in (j + 1)..Len(s) : s[k] # "["
    IN [value_type_string |-> SubSeq(s, 1, i),
        length_str |-> SubSeq(s, i + 1, Len(s))]

\* type_string.rsplit("[", maxsplit=1): the text before and after the last "["
rsplit(s) ==
    LET i == CHOOSE j \in 1..Len(s) :
                 s[j] = "[" /\ \A k \in (j + 1)..Len(s) : s[k] # "["
    IN [value_type_string |-> SubSeq(s, 1, i - 1),
        length_str |-> SubSeq(s, i + 1, Len(s))]

\* length_str.rstrip("]"): every trailing "]" removed
rstrip(s) ==
    LET kept == {i \in 1..Len(s) : s[i] # "]"}
        last == IF kept = {} THEN 0 ELSE CHOOSE i \in kept : \A j \in kept : j <= i
    IN SubSeq(s, 1, last)

\* the number a run of decimal digits denotes
DecVal(s) ==
    LET F[i \in 0..Len(s)] == IF i = 0 THEN 0 ELSE 10 * F[i - 1] + DigitVal(s[i])
    IN F[Len(s)]

\* int(text): an optional minus sign and at least one digit, else ValueError
int(s) ==
    LET neg == Len(s) > 0 /\ s[1] = "-"
        body == IF neg THEN Tail(s) ELSE s
    IN IF Len(body) = 0 \/ \E i \in 1..Len(body) : ~IsDigit(body[i])
       THEN [ok |-> FALSE, val |-> 0]
       ELSE [ok |-> TRUE, val |-> IF neg THEN 0 - DecVal(body) ELSE DecVal(body)]

(***************************************************************************)
(* The call stack.                                                         *)
(***************************************************************************)
Frame(fn, arg) ==
    [fn |-> fn, arg |-> arg, phase |-> "enter",
     type_string |-> <<>>, length |-> 0, types |-> <<>>]

Top == stack[Len(stack)]

Running == pc = "running" /\ Len(stack) > 0

\* the top activation ends with outcome out, handed to its caller
Pop(out) ==
    /\ stack' = SubSeq(stack, 1, Len(stack) - 1)
    /\ ret' = out
    /\ log' = Append(log, [depth |-> Len(stack), arg |-> Top.arg, out |-> out])

\* the top activation records its locals and calls fn(arg)
Push(frame, fn, arg) ==
    /\ stack' = Append(SubSeq(stack, 1, Len(stack) - 1) \o <<frame>>, Frame(fn, arg))
    /\ ret' = None
    /\ log' = log

(***************************************************************************)
(* type_from_abi                                                           *)
(***************************************************************************)
\* lines 84-99 and 107-111: up to the recursive call, or to the leaf lookup
\* (a local is bound with \E over a singleton, so that it is computed once)
type_from_abi_body ==
    /\ Running /\ Top.fn = "type_from_abi" /\ Top.phase = "enter"
    /\ \E type_string \in {Normalize(Top.arg)} :
          IF HasBracket(type_string)
          THEN \E parts \in {rsplit(type_string)} :
               \E stripped \in {rstrip(parts.length_str)} :
               \E length \in {int(stripped)} :
                  IF ~length.ok
                  THEN Pop(Raise("UnknownType",
                                 <<"ABI type has an invalid length: ">> \o type_string,
                                 NoNode))
                  ELSE Push([Top EXCEPT !.phase = "wait",
                                        !.type_string = type_string,
                                        !.length = length.val],
                            "type_from_abi", parts.value_type_string)
          ELSE \E found \in {NamespaceLookup(namespace, type_string)} :
                  IF Catches("KeyError", found)
                  THEN Pop(Raise("UnknownType",
                                 <<"ABI contains unknown type: ">> \o type_string,
                                 NoNode))
                  ELSE Pop(found)
    /\ UNCHANGED <<namespace, pc, input, result, cmp>>

\* lines 99-105: the recursive call has ended
type_from_abi_resume ==
    /\ Running /\ Top.fn = "type_from_abi" /\ Top.phase = "wait" /\ ret # None
    /\ LET unknown == Raise("UnknownType",
                            <<"ABI contains unknown type: ">> \o Top.type_string,
                            NoNode)
       IN IF ret.kind = "err"
          THEN IF Catches("UnknownType", ret) THEN Pop(unknown) ELSE Pop(ret)
          ELSE LET made == SArrayT(ret.type, Top.length)
               IN IF Catches("InvalidType", made) THEN Pop(unknown) ELSE Pop(made)
    /\ UNCHANGED <<namespace, pc, input, result, cmp>>

(***************************************************************************)
(* type_from_annotation                                                    *)
(***************************************************************************)
\* node.get("id"): the id of a Name node, None for any other node
node_get_id(node) == IF node.kind = "Name" THEN node.id ELSE "None"

\* the DynArray exclusion of line 151 left out
IsArrayAnnotation_any_base(type_obj, node) ==
    /\ type_obj.as_array
    /\ node.kind = "Subscript"

\* lines 148-152: the annotation spells a fixed-size array
IsArrayAnnotation(type_obj, node) ==
    /\ type_obj.as_array
    /\ node.kind = "Subscript"
    /\ node_get_id(node.value) # "DynArray"

\* the missing identifier reported like an undeclared one
StructureError_as_unknown(node) ==
    Raise("UnknownType", <<"Invalid syntax for type declaration">>, node)

\* line 139
StructureError(node) ==
    Raise("StructureException", <<"Invalid syntax for type declaration">>, node)

\* lines 143-146
UnknownTypeError(type_name, node) ==
    Raise("UnknownType", <<"No builtin or user-defined type named ", type_name>>, node)

\* the newest type put in front
CollectType_front(types, t) == <<t>> \o types

\* line 132: the types resolved so far, in the order of tuple(...)
CollectType(types, t) == Append(types, t)

\* lines 132-133: the generator resolves the next element, or the tuple is built
TupleNext(frame) ==
    IF Len(frame.types) = Len(frame.arg.elements)
    THEN Pop(TupleT(frame.types))
    ELSE Push([frame EXCEPT !.phase = "wait"],
              "type_from_annotation", frame.arg.elements[Len(frame.types) + 1])

\* lines 128-159: up to the first recursive call, or to the return
type_from_annotation_body ==
    /\ Running /\ Top.fn = "type_from_annotation" /\ Top.phase = "enter"
    /\ LET node == Top.arg
       IN IF node.kind = "Tuple"
          THEN TupleNext(Top)
          ELSE LET names == get_descendants_Name(node)
               IN IF Len(names) = 0
                  THEN Pop(StructureError(node))
                  ELSE LET type_name == names[1]
                           found == NamespaceLookup(namespace, <<type_name>>)
                       IN IF Catches("UndeclaredDefinition", found)
                          THEN Pop(UnknownTypeError(type_name, node))
                          ELSE IF IsArrayAnnotation(found.type, node)
                               THEN Push([Top EXCEPT
                                            !.phase = "wait",
                                            !.length = get_index_value(node.slice)],
                                         "type_from_annotation", node.value)
                               ELSE Pop(found)
    /\ UNCHANGED <<namespace, pc, input, result, cmp>>

\* lines 132 and 156-157: a recursive call has ended; no handler surrounds it
type_from_annotation_resume ==
    /\ Running /\ Top.fn = "type_from_annotation" /\ Top.phase = "wait" /\ ret # None
    /\ IF ret.kind = "err"
       THEN Pop(ret)
       ELSE IF Top.arg.kind = "Tuple"
            THEN TupleNext([Top EXCEPT !.types = CollectType(Top.types, ret.type)])
            ELSE Pop(SArrayT(ret.type, Top.length))
    /\ UNCHANGED <<namespace, pc, input, result, cmp>>

(***************************************************************************)
(* StringEnum                                                              *)
(***************************************************************************)
\* two enumeration families that share member names, in different orders
EnumClasses == [F |-> <<"A", "B", "C">>, G |-> <<"B", "A">>]

Member(cls, name) == [cls |-> cls, name |-> name]

\* a plain str; line 27 makes "a" the value of the member named A
Str(text) == [cls |-> "str", name |-> text]

\* options(): list(cls), the members in declaration order
options(cls) == [i \in 1..Len(EnumClasses[cls]) |-> Member(cls, EnumClasses[cls][i])]

Members == UNION {{options(c)[i] : i \in 1..Len(options(c))} : c \in DOMAIN EnumClasses}

Return(b) == [exc |-> "none", value |-> b]
Panic == [exc |-> "CompilerPanic", value |-> FALSE]

isinstance(other, cls) == other.cls = cls

\* the default of Enum: unlike operands compare unequal
StringEnum__eq__unlike_false(self, other) ==
    IF ~isinstance(other, self.cls) THEN Return(FALSE) ELSE Return(self = other)

\* lines 47-50
StringEnum__eq__(self, other) ==
    IF ~isinstance(other, self.cls) THEN Panic ELSE Return(self = other)

\* line 52: object.__ne__ inverts __eq__
StringEnum__ne__(self, other) ==
    LET eq == StringEnum__eq__(self, other)
    IN IF eq.exc # "none" THEN eq ELSE Return(~eq.value)

\* list.index(x): the first position whose item equals x
index(list, x) ==
    CHOOSE i \in 1..Len(list) :
        /\ StringEnum__eq__(list[i], x).value
        /\ \A j \in 1..(i - 1) : ~StringEnum__eq__(list[j], x).value

\* lines 54-58
StringEnum__lt__(self, other) ==
    IF ~isinstance(other, self.cls) THEN Panic
    ELSE Return(index(options(self.cls), self) < index(options(self.cls), other))

\* a or b, b evaluated only when a is false; an exception ends the expression
Or(a, b) == IF a.exc # "none" \/ a.value THEN a ELSE b

\* lines 60-61
StringEnum__le__(self, other) ==
    Or(StringEnum__eq__(self, other), StringEnum__lt__(self, other))

\* not __lt__ in place of not __le__
StringEnum__gt__not_lt(self, other) ==
    LET lt == StringEnum__lt__(self, other)
    IN IF lt.exc # "none" THEN lt ELSE Return(~lt.value)

\* lines 63-64
StringEnum__gt__(self, other) ==
    LET le == StringEnum__le__(self, other)
    IN IF le.exc # "none" THEN le ELSE Return(~le.value)

\* lines 66-67
StringEnum__ge__(self, other) ==
    Or(StringEnum__eq__(self, other), StringEnum__gt__(self, other))

(***************************************************************************)
(* The inputs explored.                                                    *)
(***************************************************************************)
SeqsUpTo(S, n) == UNION {[1..k -> S] : k \in 0..n}

AbiNames == {"uint8", "string", "bytes", "fixed168x10", "bogus"}

\* array suffixes: well formed, and malformed in each way a length can be
AbiSuffixes ==
    {<<"[", "2", "]">>, <<"[", "0", "]">>, <<"[", "1", "2", "]">>,
     <<"[", "a", "b", "c", "]">>, <<"[", "]">>, <<"[", "3">>,
     <<"[", "3", "]", "]">>, <<"[", "-", "1", "]">>}

RECURSIVE AbiStrings(_)
AbiStrings(k) ==
    IF k = 0 THEN {<<n>> : n \in AbiNames}
    ELSE LET P == AbiStrings(k - 1)
         IN P \cup {s \o suffix : s \in P, suffix \in AbiSuffixes}

Atoms == {vy_Name("uint8"), vy_Name("Foo"), vy_Name("DynArray"), vy_Name("bogus"),
          vy_Int(1)}

Lengths == {0 - 1, 2}

RECURSIVE Subscripted(_, _)
Subscripted(B, k) ==
    IF k = 0 THEN B
    ELSE LET P == Subscripted(B, k - 1)
         IN P \cup {vy_Subscript(t, l) : t \in P, l \in Lengths}

TupleElements ==
    {vy_Name("uint8"), vy_Name("Foo"), vy_Name("bogus"), vy_Int(1),
     vy_Subscript(vy_Name("uint8"), 2), vy_Subscript(vy_Name("uint8"), 0 - 1),
     vy_Subscript(vy_Name("DynArray"), 2)}

Tuples == {vy_Tuple(s) : s \in SeqsUpTo(TupleElements, MaxTupleLen)}

Annotations ==
    Subscripted(Atoms, MaxSub) \cup Subscripted(Tuples, 1)
    \cup {vy_Tuple(<<t>>) : t \in Tuples}
    \cup {vy_Tuple(<<vy_Name("uint8"), t>>) : t \in Tuples}

\* the Namespace of a compilation: builtin and user-defined type names
Namespaces ==
    {[n \in {"uint8", "decimal", "String", "Bytes", "Foo", "DynArray"} |->
         LeafT(n, n \in {"uint8", "decimal", "DynArray"})],
     [n \in {"uint8", "DynArray"} |-> LeafT(n, n = "uint8")]}

(***************************************************************************)
(* The callers.                                                            *)
(***************************************************************************)
Init ==
    /\ namespace \in Namespaces
    /\ pc = "idle"
    /\ input = None
    /\ stack = <<>>
    /\ ret = None
    /\ result = None
    /\ log = <<>>
    /\ cmp = None

\* a caller of the core resolves an ABI type string
CallAbi ==
    /\ pc = "idle"
    /\ \E s \in AbiStrings(MaxNest) :
          /\ input' = [fn |-> "type_from_abi", arg |-> s]
          /\ stack' = <<Frame("type_from_abi", s)>>
    /\ pc' = "running"
    /\ UNCHANGED <<namespace, ret, result, log, cmp>>

\* a caller of the core resolves an annotation node
CallAnnotation ==
    /\ pc = "idle"
    /\ \E node \in Annotations :
          /\ input' = [fn |-> "type_from_annotation", arg |-> node]
          /\ stack' = <<Frame("type_from_annotation", node)>>
    /\ pc' = "running"
    /\ UNCHANGED <<namespace, ret, result, log, cmp>>

\* the outermost activation has ended: the caller sees its outcome
Finish ==
    /\ pc = "running" /\ Len(stack) = 0 /\ ret # None
    /\ pc' = "done"
    /\ result' = ret
    /\ ret' = None
    /\ UNCHANGED <<namespace, input, stack, log, cmp>>

\* one pair of operands through all six comparison operators
Compare ==
    /\ pc = "idle"
    /\ \E self \in Members, other \in Members \cup {Str("a"), Str("b")} :
          cmp' = [self |-> self, other |-> other,
                  eq |-> StringEnum__eq__(self, other),
                  ne |-> StringEnum__ne__(self, other),
                  lt |-> StringEnum__lt__(self, other),
                  le |-> StringEnum__le__(self, other),
                  gt |-> StringEnum__gt__(self, other),
                  ge |-> StringEnum__ge__(self, other)]
    /\ pc' = "compared"
    /\ UNCHANGED <<namespace, input, stack, ret, result, log>>

Reset ==
    /\ pc \in {"done", "compared"}
    /\ pc' = "idle"
    /\ input' = None
    /\ result' = None
    /\ log' = <<>>
    /\ cmp' = None
    /\ UNCHANGED <<namespace, stack, ret>>

Step ==
    \/ type_from_abi_body
    \/ type_from_abi_resume
    \/ type_from_annotation_body
    \/ type_from_annotation_resume
    \/ Finish

Next ==
    \/ CallAbi
    \/ CallAnnotation
    \/ Compare
    \/ Step
    \/ Reset

Spec == Init /\ [][Next]_vars

\* the interpreter runs a started call to its end
FairSpec == Spec /\ WF_vars(Step)

(***************************************************************************)
(* Properties.                                                             *)
(***************************************************************************)
AbiDone == pc = "done" /\ input.fn = "type_from_abi"

AnnotationDone == pc = "done" /\ input.fn = "type_from_annotation"

\* s occurs in text as a contiguous run of tokens
Contains(text, s) ==
    \E i \in 0..(Len(text) - Len(s)) : SubSeq(text, i + 1, i + Len(s)) = s

IsUnknownTypeNaming(out, s) ==
    out.kind = "err" /\ out.exc = "UnknownType" /\ Contains(out.text, s)

\* the internal name an ABI name stands for
InternalName(name) ==
    CASE name = "fixed168x10" -> "decimal"
      [] name = "string" -> "String"
      [] name = "bytes" -> "Bytes"
      [] OTHER -> name

\* the innermost activation of the call looked up a name that is not declared
C1_LookupFailed ==
    /\ Len(log) > 0
    /\ \A i \in 1..Len(log[1].arg) : log[1].arg[i] # "["
    /\ ~(Len(log[1].arg) = 1 /\ InternalName(log[1].arg[1]) \in DOMAIN namespace)

\* C1: when type_from_abi fails because a type name is not declared in the
\* Namespace, the caller sees UnknownType whose message contains the complete
\* type string of the outermost call, for a bare name and under array suffixes.
C1_UndeclaredIsUnknownType ==
    (AbiDone /\ C1_LookupFailed) => IsUnknownTypeNaming(result, input.arg)

\* the text after the last "[" of s
C2_AfterLastBracket(s) ==
    LET last == CHOOSE i \in 1..Len(s) :
                    s[i] = "[" /\ \A j \in (i + 1)..Len(s) : s[j] # "["
    IN SubSeq(s, last + 1, Len(s))

\* a non-negative decimal integer followed by exactly one "]"
C2_IsLength(t) ==
    /\ Len(t) >= 2
    /\ t[Len(t)] = "]"
    /\ \A i \in 1..(Len(t) - 1) : IsDigit(t[i])

C2_Malformed(s) ==
    /\ \E i \in 1..Len(s) : s[i] = "["
    /\ ~C2_IsLength(C2_AfterLastBracket(s))

\* C2: an ABI type string that contains "[" and whose text after the last "["
\* is not a non-negative decimal integer followed by exactly one "]" fails with
\* UnknownType naming the whole string; it never resolves to a type object.
C2_MalformedLengthIsUnknownType ==
    (AbiDone /\ C2_Malformed(input.arg)) => IsUnknownTypeNaming(result, input.arg)

\* C3: InvalidType never reaches the caller of either resolver: a rejection by
\* SArrayT is seen as UnknownType by the caller of type_from_abi and of
\* type_from_annotation.
C3_InvalidTypeNeverEscapes ==
    pc = "done" => result.exc # "InvalidType"

RECURSIVE C4_Decimal(_)
C4_Decimal(n) ==
    IF n < 10 THEN <<Digits[n + 1]>>
    ELSE C4_Decimal(n \div 10) \o <<Digits[(n % 10) + 1]>>

\* name[n1][n2]...[nk]
RECURSIVE C4_Render(_, _)
C4_Render(name, lens) ==
    IF Len(lens) = 0 THEN <<name>>
    ELSE C4_Render(name, SubSeq(lens, 1, Len(lens) - 1))
             \o <<"[">> \o C4_Decimal(lens[Len(lens)]) \o <<"]">>

\* the arrays nested over t: lens[1] innermost, the last of lens outermost
RECURSIVE C4_Nested(_, _)
C4_Nested(t, lens) ==
    IF Len(lens) = 0 THEN t
    ELSE [kind |-> "SArrayT",
          value_type |-> C4_Nested(t, SubSeq(lens, 1, Len(lens) - 1)),
          length |-> lens[Len(lens)]]

C4_Lengths == {0, 2, 12}

C5_Operators == {"eq", "ne", "lt", "le", "gt", "ge"}

\* C5: comparing a StringEnum member with a value outside its own family, by
\* any of ==, !=, <, <=, >, >=, raises CompilerPanic and yields no boolean.
C5_ForeignOperandPanics ==
    (pc = "compared" /\ cmp.other.cls # cmp.self.cls) =>
        \A op \in C5_Operators : cmp[op].exc = "CompilerPanic"

C5_Witness ==
    /\ pc = "compared"
    /\ cmp.self = Member("F", "A")
    /\ cmp.other = Str("a")
    /\ cmp.ne.exc = "CompilerPanic"

\* position of a member in the declaration order of its family
C6_Position(m) ==
    CHOOSE i \in 1..Len(EnumClasses[m.cls]) : EnumClasses[m.cls][i] = m.name

C6_Boolean(out, b) == out.exc = "none" /\ out.value = b

\* C6: within one family the relational operators agree with declaration
\* order, and exactly one of a < b, a == b, a > b holds.
C6_OrderIsDeclarationOrder ==
    (pc = "compared" /\ cmp.other.cls = cmp.self.cls) =>
        LET a == C6_Position(cmp.self)
            b == C6_Position(cmp.other)
        IN /\ C6_Boolean(cmp.lt, a < b)
           /\ C6_Boolean(cmp.le, a <= b)
           /\ C6_Boolean(cmp.gt, a > b)
           /\ C6_Boolean(cmp.ge, a >= b)
           /\ Cardinality({op \in {"lt", "eq", "gt"} : cmp[op].value}) = 1

C6_Witness ==
    /\ pc = "compared"
    /\ cmp.self = Member("G", "A")
    /\ cmp.other = Member("G", "B")
    /\ cmp.gt.value
    /\ ~cmp.le.value

\* the outcome of the call the outermost activation made last
LastInnerCall == log[Len(log) - 1]

\* C7: for a non-tuple annotation whose leftmost identifier is declared, the
\* result is SArrayT(type_from_annotation(base), length of the index) exactly
\* when the identifier's type has _as_array, the node is a Subscript and its
\* base is not the identifier DynArray; otherwise it is the identifier's
\* Namespace type object unchanged.
C7_ArrayExactlyWhenArraySubscript ==
    (/\ AnnotationDone
     /\ input.arg.kind # "Tuple"
     /\ get_descendants_Name(input.arg) # <<>>
     /\ get_descendants_Name(input.arg)[1] \in DOMAIN namespace) =>
        LET node == input.arg
            leaf == namespace[get_descendants_Name(node)[1]]
            array == /\ leaf.as_array
                     /\ node.kind = "Subscript"
                     /\ ~(node.value.kind = "Name" /\ node.value.id = "DynArray")
        IN IF array
           THEN /\ Len(log) >= 2
                /\ LastInnerCall.depth = 2
                /\ LastInnerCall.arg = node.value
                /\ result = IF LastInnerCall.out.kind = "err"
                            THEN LastInnerCall.out
                            ELSE SArrayT(LastInnerCall.out.type, node.slice)
           ELSE result = Ok(leaf) /\ leaf.kind = "leaf"

C7_Witness ==
    /\ AnnotationDone
    /\ input.arg.kind = "Subscript"
    /\ input.arg.value.kind = "Subscript"
    /\ result.kind = "ok"
    /\ result.type.kind = "SArrayT"
    /\ result.type.value_type.kind = "SArrayT"

C8_IsElementCall(entry) == entry.depth = 2

\* C8: a Tuple annotation with elements e1..en resolves to a tuple type with
\* exactly n members, the i-th being the result of resolving ei, in source
\* order; if resolving an element fails, the call fails with that element's
\* error and no tuple type is returned.
C8_TupleResolvesElementwise ==
    (AnnotationDone /\ input.arg.kind = "Tuple") =>
        LET elements == input.arg.elements
            n == Len(elements)
            calls == SelectSeq(log, C8_IsElementCall)
            m == Len(calls)
        IN /\ m <= n
           /\ \A i \in 1..m : calls[i].arg = elements[i]
           /\ \A i \in 1..(m - 1) : calls[i].out.kind = "ok"
           /\ IF m = n /\ \A i \in 1..m : calls[i].out.kind = "ok"
              THEN /\ result.kind = "ok"
                   /\ result.type.kind = "TupleT"
                   /\ Len(result.type.member_types) = n
                   /\ \A i \in 1..n : result.type.member_types[i] = calls[i].out.type
              ELSE /\ m >= 1
                   /\ calls[m].out.kind = "err"
                   /\ result = calls[m].out

C8_Witness ==
    /\ AnnotationDone
    /\ input.arg.kind = "Tuple"
    /\ result.kind = "ok"
    /\ Len(result.type.member_types) = 2
    /\ result.type.member_types[1].kind = "leaf"
    /\ result.type.member_types[2].kind = "SArrayT"

RECURSIVE C9_HasName(_)
C9_HasName(node) ==
    \/ node.kind = "Name"
    \/ node.kind = "Subscript" /\ C9_HasName(node.value)
    \/ node.kind = "Tuple" /\ \E i \in 1..Len(node.elements) : C9_HasName(node.elements[i])

\* C9: a non-tuple annotation node with no Name node anywhere in it fails with
\* StructureException carrying that node, whatever the Namespace contains.
C9_NoIdentifierIsStructureException ==
    (AnnotationDone /\ input.arg.kind # "Tuple" /\ ~C9_HasName(input.arg)) =>
        /\ result.kind = "err"
        /\ result.exc = "StructureException"
        /\ result.node = input.arg

C9_Witness ==
    /\ AnnotationDone
    /\ input.arg.kind = "Subscript"
    /\ input.arg.value.kind = "Tuple"
    /\ Len(input.arg.value.elements) = 2
    /\ result.exc = "StructureException"

C10_Brackets(s) == Cardinality({i \in 1..Len(s) : s[i] = "["})

\* the activation just called receives a smaller argument than its caller
C10_CallDescends ==
    (Len(stack) >= 1 /\ Len(stack') = Len(stack) + 1) =>
        LET caller == stack'[Len(stack)]
            callee == stack'[Len(stack) + 1]
        IN IF callee.fn = "type_from_abi"
           THEN /\ caller.fn = "type_from_abi"
                /\ C10_Brackets(callee.arg) = C10_Brackets(caller.arg) - 1
           ELSE /\ caller.fn = "type_from_annotation"
                /\ \/ /\ caller.arg.kind = "Tuple"
                      /\ \E i \in 1..Len(caller.arg.elements) :
                            caller.arg.elements[i] = callee.arg
                   \/ /\ caller.arg.kind = "Subscript"
                      /\ caller.arg.value = callee.arg

C10_Terminated == pc = "done" /\ result.kind \in {"ok", "err"}

\* C10: every call of type_from_abi and of type_from_annotation terminates
\* with a type object or an error; a recursive call of type_from_abi gets a
\* string with exactly one "[" fewer, a recursive call of type_from_annotation
\* a tuple element or the subscript base of its caller's node.
C10_ResolutionTerminates ==
    /\ [][C10_CallDescends]_vars
    /\ (pc = "running") ~> C10_Terminated

C10_Witness ==
    /\ pc = "done"
    /\ \E i \in 1..Len(log) : log[i].depth = 3 /\ log[i].out.kind = "ok"
    /\ result.kind = "ok"

====
